---------------------------- MODULE Spec2Model ----------------------------
(***************************************************************************)
(* Model of the trending-footballers dashboard.                            *)
(*                                                                         *)
(*   - Sparkline's moving-average smoother (app/page.tsx), a pure function *)
(*     explored under SmoothSpec over bounded families of input series;    *)
(*   - the TrendingFootballers component (app/page.tsx): its five pieces   *)
(*     of state, the polling effect, the click handler and the render's    *)
(*     early returns, together with the PlayerDetails child                *)
(*     (app/components/PlayerDetails.tsx), explored under Spec;            *)
(*   - the API route GET /api/trending-footballers in its two variants     *)
(*     (app/api/trending-footballers/route.ts and the older route),        *)
(*     explored under RouteSpec over every short CSV text;                 *)
(*   - getCountryCode (app/page.tsx), explored under CountrySpec;          *)
(*   - ExpandableNavbar's scroll handler and item expansion, explored      *)
(*     under NavSpec;                                                      *)
(*   - the detail chart's series (PlayerDetails), explored under           *)
(*     ChartSpec over raw series of many lengths and date orders.          *)
(*                                                                         *)
(* JavaScript arrays are modelled as sequences; JS index i is position     *)
(* i + 1 of the sequence.  JS numbers produced by a division are kept      *)
(* exact as a fraction [num, den].                                         *)
(***************************************************************************)
EXTENDS Integers, Sequences, FiniteSets, TLC

VARIABLES
    \* ---- Sparkline under test (SmoothSpec) ----
    data,            \* the `data` prop handed to Sparkline
    sparkPc,         \* "props": not rendered yet, "rendered"
    smoothData,      \* Sparkline's smoothData
    chartData,       \* Sparkline's chartData handed to <LineChart>
    \* ---- TrendingFootballers state (useState hooks) ----
    footballers, lastUpdate, loading, error, selectedPlayer,
    \* ---- TrendingFootballers environment ----
    phase,           \* "constructed" | "mounted" | "unmounted"
    interval,        \* delay in ms of the live setInterval timer, 0: none
    inflight,        \* ranking fetches in flight: set of [id, pc]
    started,         \* number of ranking fetches started since page load
    ticks,           \* number of interval callbacks run since page load
    clickTimers,     \* pending setTimeout callbacks of handlePlayerClick
    \* ---- PlayerDetails instance (child, keyed by player id) ----
    detailKey,       \* key of the mounted instance, NoKey when none
    news, dLoading,
    newsInflight,    \* the mounted instance's news fetch is in flight
    newsStarted,     \* news fetches started since page load
    openNews,        \* news fetches started since the current selection
    \* ---- observation ----
    lastEvent,       \* the handler that ran last and its outcome
    lastShown,       \* the ranking list most recently on screen
    \* ---- server side and helpers, each explored on its own ----
    route,           \* one GET of /api/trending-footballers (RouteSpec)
    flag,            \* one call of getCountryCode (CountrySpec)
    nav,             \* ExpandableNavbar and its window (NavSpec)
    chart            \* one render of the detail chart (ChartSpec)

smoothVars == <<data, sparkPc, smoothData, chartData>>
stateVars  == <<footballers, lastUpdate, loading, error, selectedPlayer>>
envVars    == <<phase, interval, inflight, started, ticks, clickTimers>>
detailVars == <<detailKey, news, dLoading, newsInflight, newsStarted, openNews>>
obsVars    == <<lastEvent, lastShown>>
pageVars   == <<stateVars, envVars, detailVars, obsVars>>
vars == <<smoothVars, stateVars, envVars, detailVars, obsVars, route, flag,
         nav, chart>>

-----------------------------------------------------------------------------
(* JavaScript values *)

\* Every JS value that can stand where another kind of value can is a record
\* tagged with its kind, so that any two of them can be compared.
Null      == [js |-> "null"]
Undefined == [js |-> "undefined"]
TypeError == [js |-> "TypeError"]
Str(s)    == [js |-> "string", chars |-> s]
Arr(seq)  == [js |-> "array", items |-> seq]

\* truthiness as used by x && ..., x || ..., !x and x ? ... : ...
Truthy(x) == x # Null /\ x # Undefined /\ x # Str("")

Min(a, b) == IF a < b THEN a ELSE b
Max(a, b) == IF a > b THEN a ELSE b

\* Array.prototype.slice(start, end) for 0 <= start; end is clamped
Slice(arr, start, end) ==
    SubSeq(arr, start + 1, Min(end, Len(arr)))

\* Array.prototype.slice(start) with no end
SliceFrom(arr, start) == SubSeq(arr, start + 1, Len(arr))

\* arr.reduce((sum, v) => sum + v, 0)
RECURSIVE ReduceSum(_, _)
ReduceSum(arr, sum) ==
    IF arr = <<>> THEN sum ELSE ReduceSum(Tail(arr), sum + Head(arr))

\* a / b on JS numbers, kept exact
Div(a, b) == [num |-> a, den |-> b]

-----------------------------------------------------------------------------
(* Sparkline: the smoother *)

Window == 12
Stride == 6

\* One call of the reducer at JS index i with accumulator acc.
SmoothStep_ShortWindow(arr, acc, i) ==
    IF i < Stride THEN acc
    ELSE LET windowSum == ReduceSum(Slice(arr, Max(i - Window, 0), i), 0)
             avg == Div(windowSum, Window)
         IN  IF i % Stride = 0 THEN Append(acc, avg) ELSE acc

SmoothStep_InclusiveWindow(arr, acc, i) ==
    IF i < Window THEN acc
    ELSE LET windowSum == ReduceSum(Slice(arr, i - Window + 1, i + 1), 0)
             avg == Div(windowSum, Window)
         IN  IF i % Stride = 0 THEN Append(acc, avg) ELSE acc

SmoothStep_NoStride(arr, acc, i) ==
    IF i < Window THEN acc
    ELSE LET windowSum == ReduceSum(Slice(arr, i - Window, i), 0)
             avg == Div(windowSum, Window)
         IN  Append(acc, avg)

SmoothStep_WindowStride(arr, acc, i) ==
    IF i < Window THEN acc
    ELSE LET windowSum == ReduceSum(Slice(arr, i - Window, i), 0)
             avg == Div(windowSum, Window)
         IN  IF i % Window = 0 THEN Append(acc, avg) ELSE acc

SmoothStep_EveryIndex(arr, acc, i) ==
    LET windowSum == ReduceSum(Slice(arr, Max(i - Window, 0), i), 0)
        avg == Div(windowSum, Window)
    IN  Append(acc, avg)

SmoothStep(arr, acc, i) ==
    IF i < Window THEN acc
    ELSE LET windowSum == ReduceSum(Slice(arr, i - Window, i), 0)
             avg == Div(windowSum, Window)
         IN  IF i % Stride = 0 THEN Append(acc, avg) ELSE acc

\* data.reduce(reducer, []) : indices 0 .. n-1 in order, initial value []
RECURSIVE SmoothFrom(_, _, _)
SmoothFrom(arr, acc, i) ==
    IF i >= Len(arr) THEN acc
    ELSE SmoothFrom(arr, SmoothStep(arr, acc, i), i + 1)

Smooth_SeededWithInput(arr) == SmoothFrom(arr, arr, 0)

Smooth(arr) == SmoothFrom(arr, <<>>, 0)

ChartDataOf_Reversed(smooth) ==
    [k \in 1..Len(smooth) |-> [value |-> smooth[Len(smooth) + 1 - k]]]

\* smoothData.map((value) => ({ value }))
ChartDataOf(smooth) == [k \in 1..Len(smooth) |-> [value |-> smooth[k]]]

-----------------------------------------------------------------------------
(* The ranking artifact (/trending_footballers.json) and its entries *)

\* interest_over_time of an entry: values and dates of equal length.  Dates
\* are timestamps in minutes; the series below is not in date order.
SeriesLen == 14

SeriesA ==
    [values |-> [k \in 1..SeriesLen |-> k],
     dates  |-> [k \in 1..SeriesLen |-> IF k = 1 THEN 5 * SeriesLen + 5 ELSE 5 * k]]

SeriesB ==
    [values |-> [k \in 1..SeriesLen |-> (7 * k) % 5],
     dates  |-> [k \in 1..SeriesLen |-> 5 * k]]

\* A Footballer: the fields the component's logic reads.  An optional field
\* that is absent reads as undefined.
Entry(id, rank, iot) ==
    [rank |-> rank, player |-> [id |-> id], interest_over_time |-> iot]

\* updated_at: an ISO timestamp, kept as day, minute of day and seconds
Stamp(day, minute, sec) == [day |-> day, minute |-> minute, sec |-> sec]

Artifact1 ==
    [updated_at |-> Stamp(5, 720, 7),
     players    |-> Arr(<< Entry(1, 1, Undefined), Entry(2, 2, SeriesA) >>)]

Artifact2 ==
    [updated_at |-> Stamp(5, 1080, 3),
     players    |-> Arr(<< Entry(2, 1, SeriesB), Entry(1, 2, Undefined) >>)]

ArtifactEmpty ==
    [updated_at |-> Stamp(6, 0, 0), players |-> Arr(<< >>)]

\* the JSON document {} : both fields absent
ArtifactNoFields ==
    [updated_at |-> Undefined, players |-> Undefined]

\* what response.json() can resolve to (the JSON document null included)
Bodies == {Artifact1, Artifact2, ArtifactEmpty, ArtifactNoFields, Null}

AllEntries ==
    { Artifact1.players.items[k] : k \in 1..Len(Artifact1.players.items) } \cup
    { Artifact2.players.items[k] : k \in 1..Len(Artifact2.players.items) }

\* `${date.toLocaleDateString(month, day)} at ${date.toLocaleTimeString(hour,
\* minute)}` : the seconds are dropped; new Date(undefined) is an Invalid
\* Date, which formats as the text "Invalid Date" without throwing.
FormatDate(timestamp) ==
    IF timestamp = Undefined
    THEN Str("Invalid Date at Invalid Date")
    ELSE [js |-> "string", date |-> timestamp.day, time |-> timestamp.minute]

-----------------------------------------------------------------------------
(* The news artifact (/player_news.json) *)

PlayerNews(id) == [player_id |-> id, trend_summary |-> id]

\* what response.json() can resolve to: the player_news lists
NewsBodies == { << PlayerNews(1), PlayerNews(2) >>, << PlayerNews(2) >>, << >> }

Find_First(list, id) ==
    IF list = << >> THEN Undefined ELSE Head(list)

\* Array.prototype.find: the first match, undefined when there is none
RECURSIVE Find(_, _)
Find(list, id) ==
    IF list = << >> THEN Undefined
    ELSE IF Head(list).player_id = id THEN Head(list)
    ELSE Find(Tail(list), id)

-----------------------------------------------------------------------------
(* Bounds of the exploration *)

MaxFetches == 2      \* ranking fetches started per page load
MaxTimers  == 2      \* pending click timers
MaxNews    == 2      \* news fetches started per page load

\* window.innerWidth at the time of a click
Widths == {374, 375, 767, 768}

\* err.message of an error thrown by the runtime (a rejected fetch, a body
\* that is not JSON, a property read on null): some text, or none
RuntimeMessage == Str("message of the runtime's error")
RejectMessages == { Str(""), RuntimeMessage }

NoKey == 0

\* setInterval(fetchFootballers, 300000)
PollDelay  == 300000
NoInterval == 0

-----------------------------------------------------------------------------
(* TrendingFootballers: render *)

\* The early returns of the render, in order.
ViewOf_NoDataBeforeError(ph, ld, er, fb) ==
    IF ph # "mounted" THEN "none"
    ELSE IF ld THEN "loading"
    ELSE IF ~Truthy(fb) \/ Len(fb.items) = 0 THEN "nodata"
    ELSE IF Truthy(er) THEN "error"
    ELSE "list"

ViewOf(ph, ld, er, fb) ==
    IF ph # "mounted" THEN "none"
    ELSE IF ld THEN "loading"
    ELSE IF Truthy(er) THEN "error"
    ELSE IF ~Truthy(fb) \/ Len(fb.items) = 0 THEN "nodata"
    ELSE "list"

View == ViewOf(phase, loading, error, footballers)

\* One <motion.li>: the sparkline cell is rendered only for an entry that has
\* interest_over_time, and Sparkline then runs the smoother on its values.
RenderRow_NoGuard(footballer) ==
    [id |-> footballer.player.id, rank |-> footballer.rank,
     sparkline |-> IF footballer.interest_over_time = Undefined
                   THEN TypeError
                   ELSE Arr(Smooth(footballer.interest_over_time.values))]

RenderRow(footballer) ==
    [id |-> footballer.player.id, rank |-> footballer.rank,
     sparkline |-> IF Truthy(footballer.interest_over_time)
                   THEN Arr(Smooth(footballer.interest_over_time.values))
                   ELSE Undefined]

\* footballers.map(...) of the list view; nothing in the other views
Rows ==
    IF View = "list"
    THEN [k \in 1..Len(footballers.items) |-> RenderRow(footballers.items[k])]
    ELSE << >>

\* <PlayerDetails> is an element of the list view, keyed by the player id
KeyOf(view, sel) ==
    IF view = "list" /\ Truthy(sel) THEN sel.player.id ELSE NoKey

-----------------------------------------------------------------------------
(* PlayerDetails: render *)

DetailSkip == 12

\* Stable insertion of pair p into the date-ordered sequence s
RECURSIVE InsertByDate(_, _)
InsertByDate(s, p) ==
    IF s = << >> THEN << p >>
    ELSE IF s[Len(s)].date <= p.date THEN Append(s, p)
    ELSE Append(InsertByDate(SubSeq(s, 1, Len(s) - 1), p), s[Len(s)])

\* pairs.sort((a, b) => time(a.date) - time(b.date)) : a stable sort
RECURSIVE SortByDate(_)
SortByDate(pairs) ==
    IF pairs = << >> THEN << >>
    ELSE InsertByDate(SortByDate(SubSeq(pairs, 1, Len(pairs) - 1)),
                      pairs[Len(pairs)])

ChartSeries_SliceThenSort(iot) ==
    IF iot = Undefined \/ iot = Null THEN Arr(<< >>)
    ELSE Arr(SortByDate(SliceFrom([k \in 1..Len(iot.values) |->
                 [value |-> iot.values[k], date |-> iot.dates[k]]], DetailSkip)))

\* The data prop of the detail chart:
\*   interest_over_time?.values.map(...).sort(...).slice(12) || []
ChartSeries(iot) ==
    IF iot = Undefined \/ iot = Null THEN Arr(<< >>)
    ELSE Arr(SliceFrom(SortByDate([k \in 1..Len(iot.values) |->
                 [value |-> iot.values[k], date |-> iot.dates[k]]]), DetailSkip))

\* loading ? spinner : news ? summary (with the chart) : "No summary available"
DetailView ==
    IF detailKey = NoKey THEN "none"
    ELSE IF dLoading THEN "spinner"
    ELSE IF Truthy(news) THEN "summary"
    ELSE "no-summary"

-----------------------------------------------------------------------------
(* Initial state: the component constructed, its effect not yet run *)

ComponentInit ==
    /\ footballers = Arr(<< >>)
    /\ lastUpdate = Str("")
    /\ loading = TRUE
    /\ error = Null
    /\ selectedPlayer = Null
    /\ phase = "constructed"
    /\ interval = NoInterval
    /\ inflight = {}
    /\ started = 0
    /\ ticks = 0
    /\ clickTimers = << >>
    /\ detailKey = NoKey
    /\ news = Null
    /\ dLoading = TRUE
    /\ newsInflight = FALSE
    /\ newsStarted = 0
    /\ openNews = 0
    /\ lastEvent = "init"
    /\ lastShown = Arr(<< >>)

\* Sparkline not under test
SmoothIdle ==
    /\ data = << >>
    /\ sparkPc = "props"
    /\ smoothData = << >>
    /\ chartData = << >>

\* no request at the route, no call of getCountryCode
RouteIdle ==
    [pc |-> "idle", variant |-> "none", csvRead |-> "pending",
     stampRead |-> "pending", csvContent |-> Undefined,
     lastUpdate |-> Undefined, response |-> Undefined]
FlagIdle ==
    [pc |-> "idle", nationality |-> Undefined, countryCodes |-> << >>,
     result |-> Undefined]

\* the navbar as constructed: useState(false), useState("rankings"), the
\* window at the top; no detail chart rendered
NavIdle ==
    [isScrolled |-> FALSE, activeSection |-> "rankings", scrollY |-> 0,
     innerHeight |-> 100,
     layout |-> [rankings |-> 0, search |-> 100, features |-> 200, about |-> 300],
     throttled |-> FALSE, pending |-> FALSE, before |-> "rankings",
     last |-> "none"]
ChartIdle == [pc |-> "idle", pairs |-> << >>, series |-> << >>]

benchVars == <<smoothVars, route, flag, nav, chart>>

Init ==
    /\ SmoothIdle
    /\ route = RouteIdle
    /\ flag = FlagIdle
    /\ nav = NavIdle
    /\ chart = ChartIdle
    /\ ComponentInit

-----------------------------------------------------------------------------
(* Re-render after a handler: the PlayerDetails child *)

\* The child is mounted when its key appears, unmounted when it disappears
\* and replaced when the key changes.  A mount starts with news = null and
\* loading = true and runs the effect, which starts one news fetch.  The
\* fetch of an instance that is gone settles without changing any state (its
\* setNews and setLoading reach an unmounted instance): a stuttering step.
\* showChart only switches the chart's <Line> on after the entry animation
\* and is not modelled.
Reconcile ==
    LET view == ViewOf(phase', loading', error', footballers')
        key  == KeyOf(view, selectedPlayer')
        sinceSelection ==
            IF ~Truthy(selectedPlayer') THEN 0
            ELSE IF ~Truthy(selectedPlayer) THEN 0
            ELSE IF selectedPlayer.player.id # selectedPlayer'.player.id THEN 0
            ELSE openNews
    IN  IF key = detailKey
        THEN /\ UNCHANGED <<detailKey, news, dLoading, newsInflight, newsStarted>>
             /\ openNews' = sinceSelection
        ELSE IF key = NoKey
        THEN /\ detailKey' = NoKey
             /\ news' = Null
             /\ dLoading' = TRUE
                      /\ newsInflight' = FALSE
             /\ newsStarted' = newsStarted
             /\ openNews' = sinceSelection
        ELSE /\ newsStarted < MaxNews
             /\ detailKey' = key
             /\ news' = Null
             /\ dLoading' = TRUE
                      /\ newsInflight' = TRUE
             /\ newsStarted' = newsStarted + 1
             /\ openNews' = sinceSelection + 1

Observe(event) ==
    /\ lastEvent' = event
    /\ lastShown' = IF ViewOf(phase', loading', error', footballers') = "list"
                    THEN footballers' ELSE lastShown

-----------------------------------------------------------------------------
(* TrendingFootballers: the effect and fetchFootballers *)

StartFetch_ClearsError ==
    /\ loading' = TRUE
    /\ error' = Null
    /\ inflight' = inflight \cup {[id |-> started + 1, pc |-> "fetch"]}
    /\ started' = started + 1
    /\ UNCHANGED <<footballers, lastUpdate, selectedPlayer>>

StartFetch_ClearsSelection ==
    /\ loading' = TRUE
    /\ selectedPlayer' = Null
    /\ inflight' = inflight \cup {[id |-> started + 1, pc |-> "fetch"]}
    /\ started' = started + 1
    /\ UNCHANGED <<footballers, lastUpdate, error>>

\* fetchFootballers up to its first await: setLoading(true), fetch(...)
StartFetch ==
    /\ loading' = TRUE
    /\ inflight' = inflight \cup {[id |-> started + 1, pc |-> "fetch"]}
    /\ started' = started + 1
    /\ UNCHANGED <<footballers, lastUpdate, error, selectedPlayer>>

\* useEffect(..., []) on mount: fetchFootballers(); setInterval(..., 300000)
Mount ==
    /\ phase = "constructed"
    /\ phase' = "mounted"
    /\ StartFetch
    /\ interval' = PollDelay
    /\ UNCHANGED <<ticks, clickTimers, benchVars>>
    /\ Reconcile
    /\ Observe("mount")

\* the interval callback
Tick ==
    /\ interval # NoInterval
    /\ started < MaxFetches
    /\ StartFetch
    /\ ticks' = ticks + 1
    /\ UNCHANGED <<phase, interval, clickTimers, benchVars>>
    /\ Reconcile
    /\ Observe("tick")

\* the effect's cleanup: clearInterval(interval)
Cleanup_KeepInterval == interval' = interval

Cleanup == interval' = NoInterval

Unmount ==
    /\ phase = "mounted"
    /\ phase' = "unmounted"
    /\ Cleanup
    /\ UNCHANGED <<stateVars, inflight, started, ticks, clickTimers, benchVars>>
    /\ Reconcile
    /\ Observe("unmount")

\* setError(err.message || 'An error occurred')
ErrorText_NoFallback(message) == message

ErrorText(message) ==
    IF Truthy(message) THEN message ELSE Str("An error occurred")

Catch_ClearsList(f, message) ==
    /\ error' = ErrorText(message)
    /\ loading' = FALSE
    /\ footballers' = Arr(<< >>)
    /\ inflight' = inflight \ {f}
    /\ UNCHANGED <<lastUpdate, selectedPlayer>>
    /\ UNCHANGED <<phase, interval, started, ticks, clickTimers, benchVars>>
    /\ Reconcile
    /\ Observe("fail")

Catch_NoFinally(f, message) ==
    /\ error' = ErrorText(message)
    /\ inflight' = inflight \ {f}
    /\ UNCHANGED <<footballers, lastUpdate, loading, selectedPlayer>>
    /\ UNCHANGED <<phase, interval, started, ticks, clickTimers, benchVars>>
    /\ Reconcile
    /\ Observe("fail")

\* catch (err) { setError(...) } finally { setLoading(false) }
Catch(f, message) ==
    /\ error' = ErrorText(message)
    /\ loading' = FALSE
    /\ inflight' = inflight \ {f}
    /\ UNCHANGED <<footballers, lastUpdate, selectedPlayer>>
    /\ UNCHANGED <<phase, interval, started, ticks, clickTimers, benchVars>>
    /\ Reconcile
    /\ Observe("fail")

\* await fetch(...) resolves with a response
FetchResponds(f, ok) ==
    /\ f \in inflight
    /\ f.pc = "fetch"
    /\ IF ok
       THEN /\ inflight' = (inflight \ {f}) \cup {[f EXCEPT !.pc = "json"]}
            /\ UNCHANGED <<stateVars, phase, interval, started, ticks,
                           clickTimers, benchVars>>
            /\ Reconcile
            /\ Observe("response")
       ELSE Catch(f, Str("Network response was not ok"))

\* await fetch(...) rejects
FetchRejects(f, message) ==
    /\ f \in inflight
    /\ f.pc = "fetch"
    /\ Catch(f, message)

\* await response.json() rejects: the body is not JSON
JsonRejects(f) ==
    /\ f \in inflight
    /\ f.pc = "json"
    /\ Catch(f, RuntimeMessage)

JsonResolves_LatestOnly(f, body) ==
    /\ f \in inflight
    /\ f.pc = "json"
    /\ IF body = Null
       THEN Catch(f, RuntimeMessage)
       ELSE /\ footballers' = IF f.id = started THEN body.players
                              ELSE footballers
            /\ lastUpdate' = IF f.id = started THEN FormatDate(body.updated_at)
                             ELSE lastUpdate
            /\ loading' = FALSE
            /\ inflight' = inflight \ {f}
            /\ UNCHANGED <<error, selectedPlayer>>
            /\ UNCHANGED <<phase, interval, started, ticks, clickTimers,
                           benchVars>>
            /\ Reconcile
            /\ Observe("ok")

\* await response.json() resolves with the document `body`
JsonResolves(f, body) ==
    /\ f \in inflight
    /\ f.pc = "json"
    /\ IF body = Null
       THEN Catch(f, RuntimeMessage)
       ELSE /\ footballers' = body.players
            /\ lastUpdate' = FormatDate(body.updated_at)
            /\ loading' = FALSE
            /\ inflight' = inflight \ {f}
            /\ UNCHANGED <<error, selectedPlayer>>
            /\ UNCHANGED <<phase, interval, started, ticks, clickTimers,
                           benchVars>>
            /\ Reconcile
            /\ Observe("ok")

-----------------------------------------------------------------------------
(* TrendingFootballers: selection *)

\* document.querySelector(`[data-player-id="${id}"]`): a row of the list view
RowInDocument(id) ==
    /\ View = "list"
    /\ \E k \in 1..Len(footballers.items) : footballers.items[k].player.id = id

\* onClick of a rendered row
HandlePlayerClick(footballer, innerWidth) ==
    /\ View = "list"
    /\ \E k \in 1..Len(footballers.items) : footballers.items[k] = footballer
    /\ IF innerWidth >= 375 /\ innerWidth < 768
       THEN /\ IF RowInDocument(footballer.player.id)
               THEN /\ Len(clickTimers) < MaxTimers
                    /\ clickTimers' = Append(clickTimers, footballer)
               ELSE UNCHANGED clickTimers
            /\ UNCHANGED stateVars
       ELSE /\ selectedPlayer' = footballer
            /\ UNCHANGED <<footballers, lastUpdate, loading, error, clickTimers>>
    /\ UNCHANGED <<phase, interval, inflight, started, ticks, benchVars>>
    /\ Reconcile
    /\ Observe("click")

ClickTimerFires_NewestFirst ==
    /\ clickTimers # << >>
    /\ selectedPlayer' = clickTimers[Len(clickTimers)]
    /\ clickTimers' = SubSeq(clickTimers, 1, Len(clickTimers) - 1)
    /\ UNCHANGED <<footballers, lastUpdate, loading, error>>
    /\ UNCHANGED <<phase, interval, inflight, started, ticks, benchVars>>
    /\ Reconcile
    /\ Observe("timer")

\* the setTimeout callback, 500 ms after its click: timers fire in click order
ClickTimerFires ==
    /\ clickTimers # << >>
    /\ selectedPlayer' = Head(clickTimers)
    /\ clickTimers' = Tail(clickTimers)
    /\ UNCHANGED <<footballers, lastUpdate, loading, error>>
    /\ UNCHANGED <<phase, interval, inflight, started, ticks, benchVars>>
    /\ Reconcile
    /\ Observe("timer")

\* onClose of the detail view: setSelectedPlayer(null)
Close ==
    /\ detailKey # NoKey
    /\ selectedPlayer' = Null
    /\ UNCHANGED <<footballers, lastUpdate, loading, error>>
    /\ UNCHANGED <<envVars, benchVars>>
    /\ Reconcile
    /\ Observe("close")

\* window.location.reload(): the page and everything pending on it is gone
Reload ==
    /\ phase # "constructed"
    /\ footballers' = Arr(<< >>)
    /\ lastUpdate' = Str("")
    /\ loading' = TRUE
    /\ error' = Null
    /\ selectedPlayer' = Null
    /\ phase' = "constructed"
    /\ interval' = NoInterval
    /\ inflight' = {}
    /\ started' = 0
    /\ ticks' = 0
    /\ clickTimers' = << >>
    /\ detailKey' = NoKey
    /\ news' = Null
    /\ dLoading' = TRUE
    /\ newsInflight' = FALSE
    /\ newsStarted' = 0
    /\ openNews' = 0
    /\ lastEvent' = "init"
    /\ lastShown' = Arr(<< >>)
    /\ UNCHANGED benchVars

-----------------------------------------------------------------------------
(* PlayerDetails: fetchNews *)

\* fetchNews settles for the mounted instance: with the player_news list
\* (setNews(find(...))), or by throwing (news is left as it is); then
\* finally setLoading(false)
NewsResolves(list) ==
    /\ newsInflight
    /\ news' = Find(list, detailKey)
    /\ dLoading' = FALSE
    /\ newsInflight' = FALSE
    /\ UNCHANGED <<detailKey, newsStarted, openNews>>
    /\ UNCHANGED <<stateVars, envVars, benchVars, lastShown>>
    /\ lastEvent' = "news"

NewsFails ==
    /\ newsInflight
    /\ dLoading' = FALSE
    /\ newsInflight' = FALSE
    /\ UNCHANGED <<detailKey, news, newsStarted, openNews>>
    /\ UNCHANGED <<stateVars, envVars, benchVars, lastShown>>
    /\ lastEvent' = "news-failed"

-----------------------------------------------------------------------------
(* The dashboard *)

Next ==
    \/ Mount
    \/ Tick
    \/ Unmount
    \/ \E f \in inflight, ok \in BOOLEAN : FetchResponds(f, ok)
    \/ \E f \in inflight, message \in RejectMessages : FetchRejects(f, message)
    \/ \E f \in inflight : JsonRejects(f)
    \/ \E f \in inflight, body \in Bodies : JsonResolves(f, body)
    \/ \E footballer \in AllEntries, innerWidth \in Widths :
           HandlePlayerClick(footballer, innerWidth)
    \/ ClickTimerFires
    \/ Close
    \/ Reload
    \/ \E list \in NewsBodies : NewsResolves(list)
    \/ NewsFails

Spec == Init /\ [][Next]_vars

-----------------------------------------------------------------------------
(* Sparkline on its own: the smoother over bounded families of inputs *)

MaxLen   == 37      \* longest input series
MaxSlope == 2       \* ramps data[i] = (slope * i + base) % Modulus
MaxBase  == 1
Modulus  == 7

Ramp(n, slope, base) == [k \in 1..n |-> (slope * (k - 1) + base) % Modulus]

\* all zero but for a single 1 at JS index at (none when at = n)
Impulse(n, at) == [k \in 1..n |-> IF k - 1 = at THEN 1 ELSE 0]

\* 1, 2, ..., n
Counting(n) == [k \in 1..n |-> k]

Inputs ==
    { Ramp(n, slope, base) : n \in 0..MaxLen, slope \in 0..MaxSlope,
                             base \in 0..MaxBase } \cup
    { Impulse(n, at) : n \in 0..MaxLen, at \in 0..MaxLen } \cup
    { Counting(n) : n \in 0..MaxLen }

\* The component as it is when a Sparkline renders: the list view of a
\* ranking that the first fetch has delivered.
ListShown(artifact) ==
    /\ footballers = artifact.players
    /\ lastUpdate = FormatDate(artifact.updated_at)
    /\ loading = FALSE
    /\ error = Null
    /\ selectedPlayer = Null
    /\ phase = "mounted"
    /\ interval = PollDelay
    /\ inflight = {}
    /\ started = 1
    /\ ticks = 0
    /\ clickTimers = << >>
    /\ detailKey = NoKey
    /\ news = Null
    /\ dLoading = TRUE
    /\ newsInflight = FALSE
    /\ newsStarted = 0
    /\ openNews = 0
    /\ lastEvent = "ok"
    /\ lastShown = artifact.players

SmoothInit ==
    /\ data \in Inputs
    /\ sparkPc = "props"
    /\ smoothData = << >>
    /\ chartData = << >>
    /\ route = RouteIdle
    /\ flag = FlagIdle
    /\ nav = NavIdle
    /\ chart = ChartIdle
    /\ \E artifact \in {Artifact1, Artifact2} : ListShown(artifact)

SparklineRender_SplicesInput ==
    /\ sparkPc = "props"
    /\ smoothData' = Smooth(data)
    /\ chartData' = ChartDataOf(Smooth(data))
    /\ sparkPc' = "rendered"
    /\ data' = SliceFrom(data, Min(Window, Len(data)))
    /\ UNCHANGED <<pageVars, route, flag, nav, chart>>

\* Sparkline({ data }): smoothData, then chartData for <LineChart>.  The
\* reducer reads data through slice and pushes onto its own accumulator; the
\* function calls no state setter.
SparklineRender ==
    /\ sparkPc = "props"
    /\ smoothData' = Smooth(data)
    /\ chartData' = ChartDataOf(Smooth(data))
    /\ sparkPc' = "rendered"
    /\ UNCHANGED <<data, pageVars, route, flag, nav, chart>>

SmoothNext == SparklineRender

SmoothSpec == SmoothInit /\ [][SmoothNext]_vars

-----------------------------------------------------------------------------
(* The API route /api/trending-footballers: file texts and string helpers *)

\* The text of a file is a sequence of characters over a small alphabet:
\* a letter, a digit, the comma, the double quote, the line feed, the space.
Letter  == "a"
Digit   == "7"
Comma   == ","
Quote   == "\""
Newline == "\n"
Space   == " "
Chars      == {Letter, Digit, Comma, Quote, Newline, Space}
Whitespace == {Newline, Space}
DigitValue == (Digit :> 7)

MaxCsvLen == 4
CsvContents == UNION {[1..n -> Chars] : n \in 0..MaxCsvLen}

\* a JS string held as its characters; NaN and finite numbers
Text(chars) == [js |-> "string", text |-> chars]
NaN         == [js |-> "NaN"]
Num(n)      == [js |-> "number", number |-> n]

\* String.prototype.split(sep) for a one-character separator
RECURSIVE Split(_, _)
Split(str, sep) ==
    IF \A k \in 1..Len(str) : str[k] # sep THEN << str >>
    ELSE LET at == CHOOSE k \in 1..Len(str) :
                      str[k] = sep /\ \A j \in 1..(k - 1) : str[j] # sep
         IN  << SubSeq(str, 1, at - 1) >>
                 \o Split(SubSeq(str, at + 1, Len(str)), sep)

\* String.prototype.trim()
RECURSIVE TrimStart(_)
TrimStart(str) ==
    IF str # << >> /\ Head(str) \in Whitespace
    THEN TrimStart(Tail(str)) ELSE str

RECURSIVE TrimEnd(_)
TrimEnd(str) ==
    IF str # << >> /\ str[Len(str)] \in Whitespace
    THEN TrimEnd(SubSeq(str, 1, Len(str) - 1)) ELSE str

Trim(str) == TrimEnd(TrimStart(str))

\* field.replace(/"/g, '')
RemoveQuotes(field) == SelectSeq(field, LAMBDA c : c # Quote)

\* the longest prefix of str made of digits, and the value of a digit string
RECURSIVE LeadingDigits(_)
LeadingDigits(str) ==
    IF str # << >> /\ Head(str) \in DOMAIN DigitValue
    THEN << Head(str) >> \o LeadingDigits(Tail(str)) ELSE << >>

RECURSIVE DigitsValue(_)
DigitsValue(digits) ==
    IF digits = << >> THEN 0
    ELSE 10 * DigitsValue(SubSeq(digits, 1, Len(digits) - 1))
            + DigitValue[digits[Len(digits)]]

\* parseFloat(x): leading white space skipped, then the longest numeric
\* prefix; NaN when there is none (and for undefined, read as "undefined")
ParseFloat(x) ==
    IF x = Undefined THEN NaN
    ELSE LET digits == LeadingDigits(TrimStart(x.text))
         IN  IF digits = << >> THEN NaN ELSE Num(DigitsValue(digits))

\* Number(x): the whole trimmed string must be numeric; "" is 0
Number(x) ==
    IF x = Undefined THEN NaN
    ELSE LET t == Trim(x.text)
         IN  IF t = << >> THEN Num(0)
             ELSE IF LeadingDigits(t) = t THEN Num(DigitsValue(t))
             ELSE NaN

\* const [a, b, ...] = fields : the k-th name, undefined past the end
Destructure(fields, k) ==
    IF k <= Len(fields) THEN Text(fields[k]) ELSE Undefined

\* JSON.stringify as NextResponse.json applies it: NaN becomes null, a
\* property whose value is undefined is left out
JsonValue(x) == IF x = NaN THEN Null ELSE x
JsonObject(obj) ==
    [f \in {g \in DOMAIN obj : obj[g] # Undefined} |-> JsonValue(obj[f])]

\* route.ts: one line of the CSV to one entry
CsvEntry(line) ==
    LET raw    == Split(line, Comma)
        fields == [k \in 1..Len(raw) |-> RemoveQuotes(raw[k])]
    IN  [name          |-> Destructure(fields, 1),
         searchInterest |-> ParseFloat(Destructure(fields, 2)),
         full_name     |-> Destructure(fields, 3),
         nationality   |-> Destructure(fields, 4),
         club          |-> Destructure(fields, 5),
         club_logo     |-> Destructure(fields, 6),
         player_photo  |-> Destructure(fields, 7)]

ParseCsv_KeepsHeader(csvContent) ==
    LET lines == Split(csvContent, Newline)
        kept  == SelectSeq(lines, LAMBDA line : Trim(line) # << >>)
    IN  [k \in 1..Len(kept) |-> CsvEntry(kept[k])]

\* route.ts: csvContent.split('\n').slice(1).filter(...).map(...)
ParseCsv(csvContent) ==
    LET lines == SliceFrom(Split(csvContent, Newline), 1)
        kept  == SelectSeq(lines, LAMBDA line : Trim(line) # << >>)
    IN  [k \in 1..Len(kept) |-> CsvEntry(kept[k])]

\* older route: one line to one entry, fields as they are
OlderEntry(line) ==
    LET fields == Split(line, Comma)
    IN  [name           |-> Destructure(fields, 1),
         searchInterest |-> Number(Destructure(fields, 2))]

\* older route: csvData.trim().split('\n').map(...)
OlderParseCsv(csvData) ==
    LET lines == Split(Trim(csvData), Newline)
    IN  [k \in 1..Len(lines) |-> OlderEntry(lines[k])]

\* The text of last_update.txt: IsoStamp stands for a complete ISO 8601
\* timestamp, NowStamp for new Date().toISOString() at the time of the call.
IsoStamp == "2024-01-01T00:00:00.000Z"
NowStamp == "now"
StampTexts ==
    {<< >>, <<Newline>>, <<IsoStamp>>, <<IsoStamp, Newline>>, <<Letter>>}

\* new Date(text): a bare ISO timestamp parses; a timestamp surrounded by
\* white space is outside the ISO format, where the result is left to the
\* engine (lenient: parsed, otherwise Invalid Date); anything else is invalid
ValidDate(t) == [js |-> "Date", time |-> t]
InvalidDate  == [js |-> "Date", invalid |-> TRUE]
NewDate(text, lenient) ==
    IF text \in {<<IsoStamp>>, <<NowStamp>>} THEN ValidDate(text[1])
    ELSE IF Trim(text) = <<IsoStamp>> /\ lenient THEN ValidDate(IsoStamp)
    ELSE InvalidDate

\* date.toLocaleString(...): "Invalid Date" for an invalid date, no throw
ToLocaleString(date) ==
    IF date = InvalidDate THEN Text(<<"Invalid Date">>)
    ELSE [js |-> "string", formatted |-> date.time]

\* NextResponse.json(body, { status }), status 200 when not given
JsonResponse(body, status) == [status |-> status, body |-> body]

RouteVariants == {"route.ts", "older"}

\* the two catch blocks that answer 500
ErrorResponse(variant) ==
    JsonResponse(
        [error |-> IF variant = "route.ts"
                   THEN Text(<<"Failed to fetch trending footballers">>)
                   ELSE Text(<<"Internal Server Error">>)],
        500)

\* the footballers array as the JSON body carries it
JsonArray(entries) == [k \in 1..Len(entries) |-> JsonObject(entries[k])]

\* the body of the 200 answer of either variant
OkResponse(variant, csv, stampText, lenient) ==
    JsonResponse(
        IF variant = "route.ts"
        THEN [footballers |-> JsonArray(ParseCsv(csv)),
              lastUpdate  |-> ToLocaleString(NewDate(stampText, lenient))]
        ELSE [footballers |-> JsonArray(OlderParseCsv(csv)),
              lastUpdate  |->
                  ToLocaleString(
                      NewDate(IF Trim(stampText) # << >> THEN Trim(stampText)
                              ELSE <<NowStamp>>, lenient))],
        200)

-----------------------------------------------------------------------------
(* The API route: one GET, step by step *)

\* A request arrives: GET runs up to its first await, the CSV read.
RouteGet(variant) ==
    /\ route.pc = "idle"
    /\ route' = [route EXCEPT !.pc = "readCsv", !.variant = variant]
    /\ UNCHANGED <<smoothVars, pageVars, flag, nav, chart>>

RouteReadCsvFails_EmptyList ==
    /\ route.pc = "readCsv"
    /\ route' = [route EXCEPT
                    !.pc = "done", !.csvRead = "failed",
                    !.response =
                        JsonResponse([footballers |-> << >>,
                                      lastUpdate |-> Text(<<"Invalid Date">>)],
                                     200)]
    /\ UNCHANGED <<smoothVars, pageVars, flag, nav, chart>>

\* fs.readFile of the CSV rejects: the (outer) catch answers 500.
RouteReadCsvFails ==
    /\ route.pc = "readCsv"
    /\ route' = [route EXCEPT
                    !.pc = "done", !.csvRead = "failed",
                    !.response = ErrorResponse(route.variant)]
    /\ UNCHANGED <<smoothVars, pageVars, flag, nav, chart>>

\* fs.readFile of the CSV resolves: GET goes on to the timestamp read.
RouteReadCsvResolves(content) ==
    /\ route.pc = "readCsv"
    /\ route' = [route EXCEPT
                    !.pc = "readStamp", !.csvRead = "ok",
                    !.csvContent = Text(content)]
    /\ UNCHANGED <<smoothVars, pageVars, flag, nav, chart>>

RouteReadStampFails_Always500 ==
    /\ route.pc = "readStamp"
    /\ route' = [route EXCEPT
                    !.pc = "done", !.stampRead = "failed",
                    !.response = ErrorResponse(route.variant)]
    /\ UNCHANGED <<smoothVars, pageVars, flag, nav, chart>>

\* fs.readFile of last_update.txt rejects: route.ts falls into its catch;
\* the older route substitutes the current time and answers 200.
RouteReadStampFails ==
    /\ route.pc = "readStamp"
    /\ route' = [route EXCEPT
                    !.pc = "done", !.stampRead = "failed",
                    !.lastUpdate = IF route.variant = "route.ts" THEN Undefined
                                   ELSE Text(<<NowStamp>>),
                    !.response =
                        IF route.variant = "route.ts"
                        THEN ErrorResponse(route.variant)
                        ELSE OkResponse(route.variant, route.csvContent.text,
                                        <<NowStamp>>, TRUE)]
    /\ UNCHANGED <<smoothVars, pageVars, flag, nav, chart>>

\* fs.readFile of last_update.txt resolves: the rest of GET runs to its
\* return without another await.
RouteReadStampResolves(stampText, lenient) ==
    /\ route.pc = "readStamp"
    /\ route' = [route EXCEPT
                    !.pc = "done", !.stampRead = "ok",
                    !.lastUpdate = Text(stampText),
                    !.response =
                        OkResponse(route.variant, route.csvContent.text,
                                   stampText, lenient)]
    /\ UNCHANGED <<smoothVars, pageVars, flag, nav, chart>>

RouteInit ==
    /\ route = RouteIdle
    /\ flag = FlagIdle
    /\ nav = NavIdle
    /\ chart = ChartIdle
    /\ SmoothIdle
    /\ ComponentInit

RouteNext ==
    \/ \E variant \in RouteVariants : RouteGet(variant)
    \/ RouteReadCsvFails
    \/ \E content \in CsvContents : RouteReadCsvResolves(content)
    \/ RouteReadStampFails
    \/ \E stampText \in StampTexts, lenient \in BOOLEAN :
          RouteReadStampResolves(stampText, lenient)

RouteSpec == RouteInit /\ [][RouteNext]_vars

-----------------------------------------------------------------------------
(* getCountryCode (app/page.tsx) *)

\* A string whose case matters: its lower-case text and how it is cased.
Cased(base, style) == [js |-> "string", base |-> base, style |-> style]
Styles == {"lower", "Title", "UPPER"}
Lower(base) == Cased(base, "lower")

\* String.prototype.toLowerCase()
ToLowerCase(s) == Cased(s.base, "lower")

\* the specialCases object literal
specialCases ==
    ("côte d'ivoire" :> "ci" @@ "ivory coast" :> "ci"
        @@ "cote d'ivoire" :> "ci" @@ "türkiye" :> "tr" @@ "turkey" :> "tr"
        @@ "usa" :> "us" @@ "united states" :> "us" @@ "england" :> "gb-eng"
        @@ "republic of ireland" :> "ie" @@ "korea republic" :> "kr"
        @@ "south korea" :> "kr" @@ "dr congo" :> "cd" @@ "congo" :> "cg")

\* obj[key] on a plain object whose own keys are lower-case texts: an own
\* property, else what Object.prototype provides under that name
ObjectFunction == [js |-> "function"]
Lookup(obj, key) ==
    IF key.style = "lower" /\ key.base \in DOMAIN obj THEN Lower(obj[key.base])
    ELSE IF key = Lower("constructor") THEN ObjectFunction
    ELSE Undefined

\* Object.entries(countryCodes).reduce(...): acc[name.toLowerCase()] = code,
\* entry after entry, a later entry replacing an earlier one of the same name
RECURSIVE ReverseFrom(_, _, _)
ReverseFrom(entries, acc, i) ==
    IF i > Len(entries) THEN acc
    ELSE ReverseFrom(entries,
             (ToLowerCase(entries[i].name).base :> entries[i].code) @@ acc,
             i + 1)

Reverse(countryCodes) == ReverseFrom(countryCodes, << >>, 1)

GetCountryCode_TableFirst(nationality, countryCodes) ==
    LET normalizedNationality == ToLowerCase(nationality)
        countryCodesReverse == Reverse(countryCodes)
        regular == Lookup(countryCodesReverse, normalizedNationality)
        special == Lookup(specialCases, normalizedNationality)
    IN  IF Truthy(regular) THEN regular
        ELSE IF Truthy(special) THEN special
        ELSE normalizedNationality

GetCountryCode(nationality, countryCodes) ==
    LET normalizedNationality == ToLowerCase(nationality)
        special == Lookup(specialCases, normalizedNationality)
        countryCodesReverse == Reverse(countryCodes)
        regular == Lookup(countryCodesReverse, normalizedNationality)
    IN  IF Truthy(special) THEN special
        ELSE IF Truthy(regular) THEN regular
        ELSE normalizedNationality

\* Inputs: nationalities in three casings; country-codes.json as a list of
\* (code, name) entries with distinct codes, in file order.
MaxTable == 2
NationalityTexts ==
    DOMAIN specialCases \cup {"france", "elbonia", "constructor"}
Nationalities == {Cased(base, style) : base \in NationalityTexts, style \in Styles}
TableCodes == {"gb", "cg", "fr"}
TableNames == {Cased("england", "Title"), Cased("congo", "UPPER"),
               Cased("france", "Title")}
TableEntries == [code : TableCodes, name : TableNames]
CountryTables ==
    {t \in UNION {[1..n -> TableEntries] : n \in 0..MaxTable} :
        \A i, j \in 1..Len(t) : i # j => t[i].code # t[j].code}

CountryInit ==
    /\ flag \in [pc : {"called"}, nationality : Nationalities,
                 countryCodes : CountryTables, result : {Undefined}]
    /\ route = RouteIdle
    /\ nav = NavIdle
    /\ chart = ChartIdle
    /\ SmoothIdle
    /\ \E artifact \in {Artifact1, Artifact2} : ListShown(artifact)

\* one call of getCountryCode, from entry to return
CountryCall ==
    /\ flag.pc = "called"
    /\ flag' = [flag EXCEPT
                   !.pc = "returned",
                   !.result = GetCountryCode(flag.nationality, flag.countryCodes)]
    /\ UNCHANGED <<smoothVars, pageVars, route, nav, chart>>

CountryNext == CountryCall

CountrySpec == CountryInit /\ [][CountryNext]_vars

-----------------------------------------------------------------------------
(* ExpandableNavbar (components/ui/expandable-navbar) under Navigation *)

\* Navigation's navItems; a link is the '#' character followed by an id
navItems ==
    << [title |-> "Rankings", link |-> <<"#", "rankings">>],
       [title |-> "Search",   link |-> <<"#", "search">>],
       [title |-> "Features", link |-> <<"#", "features">>],
       [title |-> "About",    link |-> <<"#", "about">>] >>

\* handleScroll's sections array
sections == <<"rankings", "search", "features", "about">>

\* The <section id=...> elements are part of the list view only: the
\* loading, error and no-data returns render none of them.
SectionsInDocument ==
    IF View = "list" THEN {sections[i] : i \in 1..Len(sections)} ELSE {}

\* document.getElementById(id)
GetElementById(id) == IF id \in SectionsInDocument THEN Str(id) ELSE Null

\* what the window and the layout can be: offsetTop of each section, the
\* viewport height, the scroll positions
Layouts ==
    { [rankings |-> 0, search |-> 100, features |-> 200, about |-> 300],
      [rankings |-> 0, search |-> 151, features |-> 152, about |-> 420] }
InnerHeights == {100, 101}
ScrollYs == {0, 50, 51, 100, 101, 150, 250, 370}

ScrolledBeyond == 50

\* section.offsetTop <= window.scrollY + window.innerHeight / 2, on integers
\* (both sides doubled)
ReachedBy(offsetTop, scrollY, innerHeight) ==
    2 * offsetTop <= 2 * scrollY + innerHeight

ScanSections_FirstReached(n, i) ==
    LET reached == {k \in 1..Len(sections) :
                       /\ Truthy(GetElementById(sections[k]))
                       /\ ReachedBy(n.layout[sections[k]], n.scrollY,
                                    n.innerHeight)}
    IN  IF reached = {} THEN n.activeSection
        ELSE sections[CHOOSE k \in reached : \A j \in reached : k <= j]

\* for (let i = sectionElements.length - 1; i >= 0; i--) { ... break }
\* from JS index i down: the id handed to setActiveSection, or the current
\* activeSection when the loop ends without a call
RECURSIVE ScanSections(_, _)
ScanSections(n, i) ==
    IF i < 0 THEN n.activeSection
    ELSE IF /\ Truthy(GetElementById(sections[i + 1]))
            /\ ReachedBy(n.layout[sections[i + 1]], n.scrollY, n.innerHeight)
         THEN sections[i + 1]
    ELSE ScanSections(n, i - 1)

HandleScroll_AtLeast(n) ==
    [n EXCEPT !.isScrolled = n.scrollY >= ScrolledBeyond,
              !.activeSection = ScanSections(n, Len(sections) - 1),
              !.before = n.activeSection,
              !.last = "handled"]

\* one run of handleScroll on navbar state n
HandleScroll(n) ==
    [n EXCEPT !.isScrolled = n.scrollY > ScrolledBeyond,
              !.activeSection = ScanSections(n, Len(sections) - 1),
              !.before = n.activeSection,
              !.last = "handled"]

\* item.link.replace('#', '') : the first '#' removed
ReplaceHash(link) ==
    IF \A k \in 1..Len(link) : link[k] # "#" THEN link
    ELSE LET at == CHOOSE k \in 1..Len(link) :
                      link[k] = "#" /\ \A j \in 1..(k - 1) : link[j] # "#"
         IN  SubSeq(link, 1, at - 1) \o SubSeq(link, at + 1, Len(link))

\* the render's isActive and shouldExpand of one item
IsActive(n, item) == <<n.activeSection>> = ReplaceHash(item.link)
ShouldExpand(n, item) ==
    ~n.isScrolled \/ (n.isScrolled /\ IsActive(n, item))

\* the items whose label is shown
Expanded == {k \in 1..Len(navItems) : ShouldExpand(nav, navItems[k])}

NavInit ==
    /\ nav \in [isScrolled : {FALSE}, activeSection : {"rankings"},
                scrollY : {0}, innerHeight : InnerHeights, layout : Layouts,
                throttled : {FALSE}, pending : {FALSE},
                before : {"rankings"}, last : {"none"}]
    /\ chart = ChartIdle
    /\ route = RouteIdle
    /\ flag = FlagIdle
    /\ SmoothIdle
    /\ \/ ComponentInit
       \/ \E artifact \in {Artifact1, Artifact2} : ListShown(artifact)

\* The window scrolls to y and dispatches a scroll event to
\* throttledHandleScroll = throttle(handleScroll, 100): outside the throttle
\* window handleScroll runs at once (leading edge); inside it the call is
\* kept for the trailing edge.
NavScroll(y) ==
    /\ y # nav.scrollY
    /\ LET scrolled == [nav EXCEPT !.scrollY = y]
       IN  nav' = IF ~nav.throttled
                  THEN [HandleScroll(scrolled) EXCEPT !.throttled = TRUE]
                  ELSE [scrolled EXCEPT !.pending = TRUE, !.last = "deferred"]
    /\ UNCHANGED <<smoothVars, pageVars, route, flag, chart>>

\* The throttle's timer expires: a kept call runs handleScroll now, on the
\* window as it is now, and the window of 100 ms starts again; with no kept
\* call the throttle opens.
NavThrottleExpires ==
    /\ nav.throttled
    /\ nav' = IF nav.pending
              THEN [HandleScroll(nav) EXCEPT !.pending = FALSE]
              ELSE [nav EXCEPT !.throttled = FALSE, !.last = "opened"]
    /\ UNCHANGED <<smoothVars, pageVars, route, flag, chart>>

NavNext ==
    \/ \E y \in ScrollYs : NavScroll(y)
    \/ NavThrottleExpires

NavSpec == NavInit /\ [][NavNext]_vars

-----------------------------------------------------------------------------
(* PlayerDetails: one render of the detail chart, over many series *)

MaxPoints == 15

\* raw series of n samples with distinct values; the dates ascending,
\* descending, with the first sample dated last, or with repeated dates
DatesOf(n, order) ==
    [k \in 1..n |->
        IF order = "ascending" THEN 5 * k
        ELSE IF order = "descending" THEN 5 * (n + 1 - k)
        ELSE IF order = "first-last" THEN (IF k = 1 THEN 5 * n + 5 ELSE 5 * k)
        ELSE 5 * (k % 3)]
SeriesOf(n, order) == [values |-> [k \in 1..n |-> k], dates |-> DatesOf(n, order)]
ChartInputs ==
    {Undefined} \cup
    {SeriesOf(n, order) : n \in 0..MaxPoints,
        order \in {"ascending", "descending", "first-last", "repeated"}}

\* The component as it is when the chart renders: a player selected from
\* the list, the news fetch settled with that player's entry.
DetailShown(artifact, entry) ==
    /\ footballers = artifact.players
    /\ lastUpdate = FormatDate(artifact.updated_at)
    /\ loading = FALSE
    /\ error = Null
    /\ selectedPlayer = entry
    /\ phase = "mounted"
    /\ interval = PollDelay
    /\ inflight = {}
    /\ started = 1
    /\ ticks = 0
    /\ clickTimers = << >>
    /\ detailKey = entry.player.id
    /\ news = PlayerNews(entry.player.id)
    /\ dLoading = FALSE
    /\ newsInflight = FALSE
    /\ newsStarted = 1
    /\ openNews = 1
    /\ lastEvent = "news"
    /\ lastShown = artifact.players

ChartInit ==
    /\ chart = [ChartIdle EXCEPT !.pc = "props"]
    /\ \E iot \in ChartInputs, artifact \in {Artifact1, Artifact2} :
          DetailShown(artifact, Entry(1, 1, iot))
    /\ nav = NavIdle
    /\ route = RouteIdle
    /\ flag = FlagIdle
    /\ SmoothIdle

\* <LineChart data={interest_over_time?.values.map(...).sort(...).slice(12)
\* || []}>: map builds a new array of pairs, sort orders that array in
\* place, slice copies its tail; the prop is only read.
DetailChartRender ==
    /\ chart.pc = "props"
    /\ DetailView = "summary"
    /\ LET iot == selectedPlayer.interest_over_time
       IN  chart' = [pc     |-> "rendered",
                     pairs  |-> IF iot = Undefined THEN << >>
                                ELSE SortByDate([k \in 1..Len(iot.values) |->
                                        [value |-> iot.values[k],
                                         date  |-> iot.dates[k]]]),
                     series |-> ChartSeries(iot).items]
    /\ UNCHANGED <<smoothVars, pageVars, route, flag, nav>>

ChartNext == DetailChartRender

ChartSpec == ChartInit /\ [][ChartNext]_vars

-----------------------------------------------------------------------------
(* Properties of the smoother, checked under SmoothSpec *)

\* the elements of a finite set of integers in ascending order
RECURSIVE Ascending(_)
Ascending(S) ==
    IF S = {} THEN << >>
    ELSE LET least == CHOOSE x \in S : \A y \in S : x <= y
         IN  << least >> \o Ascending(S \ {least})

\* data[lo] + ... + data[hi], JS indices
RECURSIVE SumOfSamples(_, _, _)
SumOfSamples(arr, lo, hi) ==
    IF lo > hi THEN 0 ELSE arr[lo + 1] + SumOfSamples(arr, lo + 1, hi)

\* number x is the arithmetic mean of the 12 samples before JS index i
IsTrailingMean(x, arr, i) ==
    /\ x.den # 0
    /\ 12 * x.num = x.den * SumOfSamples(arr, i - 12, i - 1)

EmittingIndices(n) == { i \in 0..(n - 1) : 12 <= i /\ i % 6 = 0 }

\* C1: the smoother outputs, in ascending order of i, exactly one value for
\* each index i with 12 <= i <= n-1 and i mod 6 = 0, that value being the
\* mean of data[i-12 .. i-1]; for n = 36 the indices are 12, 18, 24, 30.
C1_EmitsTrailingMeans ==
    sparkPc = "rendered" =>
        LET indices == Ascending(EmittingIndices(Len(data)))
        IN  /\ Len(smoothData) = Len(indices)
            /\ \A k \in 1..Len(indices) :
                   IsTrailingMean(smoothData[k], data, indices[k])
            /\ Len(data) = 36 =>
                   /\ indices = << 12, 18, 24, 30 >>
                   /\ Len(smoothData) = 4

C1_Witness ==
    /\ sparkPc = "rendered"
    /\ Len(data) = 36
    /\ Len(smoothData) = 4
    /\ smoothData[1].num # smoothData[2].num
    /\ smoothData[4].num > 0

\* C2: an input of length n <= 12, the empty input included, yields an
\* empty output (and an empty chart series).
C2_ShortInputEmpty ==
    (sparkPc = "rendered" /\ Len(data) <= 12) =>
        (smoothData = << >> /\ chartData = << >>)

C2_Witness ==
    /\ sparkPc = "rendered"
    /\ Len(data) = 12
    /\ smoothData = << >>
    /\ \E k \in 1..Len(data) : data[k] # 0

\* C10 as stated: for every n >= 0 the output length is at most
\* floor((n - 12) / 6) + 1, and it is zero whenever n <= 12.
C10_LengthBoundAsStated ==
    sparkPc = "rendered" =>
        /\ Len(smoothData) <= ((Len(data) - 12) \div 6) + 1
        /\ Len(data) <= 12 => Len(smoothData) = 0

\* C10 amended: the output length is at most floor((n - 12) / 6) + 1 when
\* that is not negative (n >= 6), and it is zero whenever n <= 12.
C10_LengthBound ==
    sparkPc = "rendered" =>
        /\ Len(smoothData) <= Max(0, ((Len(data) - 12) \div 6) + 1)
        /\ Len(data) <= 12 => Len(smoothData) = 0

C10_Witness ==
    /\ sparkPc = "rendered"
    /\ Len(data) > 12
    /\ Len(smoothData) >= 2
    /\ Len(smoothData) = ((Len(data) - 12) \div 6) + 1

-----------------------------------------------------------------------------
(* Properties of the dashboard, checked under Spec *)

HeldListNonEmpty == Truthy(footballers) /\ footballers.items # << >>

\* C3: after a ranking has been displayed, a later poll that fails leaves
\* the last rendered ranking list on screen.
C3_FailedPollKeepsList ==
    (phase = "mounted" /\ lastEvent = "fail" /\ lastShown.items # << >>) =>
        (View = "list" /\ footballers = lastShown)

\* C4: while a poll is in flight after a ranking has been displayed, the
\* displayed ranking stays on screen and no other view replaces it.
C4_PollInFlightKeepsList ==
    (phase = "mounted" /\ inflight # {} /\ lastEvent = "tick"
        /\ error = Null /\ HeldListNonEmpty /\ lastShown = footballers) =>
        View = "list"

\* C5: once a ranking fetch has settled with a non-OK status, a rejection
\* or an unreadable body, the error panel is on screen (error holds a
\* non-empty text), not the list, not no-data and not a blank screen.
C5_FailureShowsErrorPanel ==
    (phase = "mounted" /\ lastEvent = "fail") =>
        (View = "error" /\ Truthy(error) /\ Rows = << >>)

C5_Witness ==
    /\ phase = "mounted"
    /\ lastEvent = "fail"
    /\ View = "error"
    /\ HeldListNonEmpty
    /\ error = Str("Network response was not ok")

C7_MissingSeriesOmitted ==
    /\ View = "list" =>
          /\ Len(Rows) = Len(footballers.items)
          /\ \A k \in 1..Len(footballers.items) :
                footballers.items[k].interest_over_time = Undefined =>
                  /\ Rows[k].id = footballers.items[k].player.id
                  /\ Rows[k].sparkline = Undefined
    /\ (detailKey # NoKey /\ selectedPlayer.interest_over_time = Undefined) =>
          ChartSeries(selectedPlayer.interest_over_time) = Arr(<< >>)

C7_Witness ==
    /\ View = "list"
    /\ Rows[1].sparkline = Undefined
    /\ Rows[2].sparkline # Undefined
    /\ DetailView = "summary"
    /\ selectedPlayer.interest_over_time = Undefined

\* C8: one ranking fetch is started at mount and one per tick of the
\* 300000 ms interval; after the cleanup (clearInterval) none is started.
C8_FetchPerMountAndTick ==
    /\ [](started = (IF phase = "constructed" THEN 0 ELSE 1) + ticks)
    /\ [](interval \in {NoInterval, 300000})
    /\ [](phase = "unmounted" => interval = NoInterval)
    /\ [][phase = "unmounted" => started' <= started]_vars

C8_Witness ==
    /\ phase = "unmounted"
    /\ started = 2
    /\ ticks = 1
    /\ inflight # {}
    /\ clickTimers # << >>

\* C9: from the selection of a player until the detail view is closed,
\* at most one news fetch has been started, whatever polls happen.
C9_OneNewsFetchPerOpening ==
    Truthy(selectedPlayer) => openNews <= 1

-----------------------------------------------------------------------------
(* Further properties of the smoother, checked under SmoothSpec *)

\* C11 as stated: for every input the output is strictly shorter than the
\* input, short and empty inputs included.
C11_StrictlyShorterAsStated ==
    sparkPc = "rendered" => Len(smoothData) < Len(data)

\* C11 amended: the output is strictly shorter than every non-empty input;
\* for the empty input it is empty too, so of equal length.
C11_StrictlyShorterNonEmpty ==
    sparkPc = "rendered" =>
        /\ Len(data) >= 1 => Len(smoothData) < Len(data)
        /\ Len(data) = 0 => Len(smoothData) = 0

C11_Witness ==
    /\ sparkPc = "rendered"
    /\ Len(data) = 1
    /\ data[1] # 0
    /\ smoothData = << >>

\* C12: the output is never longer than the input, and strictly shorter
\* whenever the input has more than 12 samples.
C12_NeverLonger ==
    sparkPc = "rendered" =>
        /\ Len(smoothData) <= Len(data)
        /\ Len(data) > 12 => Len(smoothData) < Len(data)

C12_Witness ==
    /\ sparkPc = "rendered"
    /\ Len(data) = 13
    /\ Len(smoothData) = 1

\* C13 as stated: the input 1, 2, ..., 24 yields exactly one value.
C13_OneValueAsStated ==
    (sparkPc = "rendered" /\ data = Counting(24)) => Len(smoothData) = 1

\* C13 amended: the input 1, 2, ..., 24 yields exactly two values, the mean
\* of 1..12 (78 / 12, at i = 12) and the mean of 7..18 (150 / 12, at i = 18).
C13_TwoValues ==
    (sparkPc = "rendered" /\ data = Counting(24)) =>
        smoothData = << Div(78, 12), Div(150, 12) >>

C13_Witness ==
    /\ sparkPc = "rendered"
    /\ data = Counting(24)
    /\ Len(smoothData) = 2

\* C15: a Sparkline call leaves its input and the component state
\* (footballers, lastUpdate, loading, error, selectedPlayer) as they were.
C15_CallChangesNothingElse ==
    [][sparkPc' # sparkPc =>
          /\ data' = data
          /\ footballers' = footballers
          /\ lastUpdate' = lastUpdate
          /\ loading' = loading
          /\ error' = error
          /\ selectedPlayer' = selectedPlayer]_vars

C15_Witness ==
    /\ sparkPc = "rendered"
    /\ Len(data) = 19
    /\ Len(smoothData) = 2
    /\ footballers = Artifact2.players

\* C16: the series handed to the line chart has one point per smoothed
\* value, the k-th point carrying the k-th value.
C16_ChartSeriesIsSmoothData ==
    sparkPc = "rendered" =>
        /\ Len(chartData) = Len(smoothData)
        /\ \A k \in 1..Len(smoothData) : chartData[k] = [value |-> smoothData[k]]

C16_Witness ==
    /\ sparkPc = "rendered"
    /\ Len(chartData) = 4
    /\ chartData[1].value # chartData[4].value
    /\ chartData[1].value = smoothData[1]

-----------------------------------------------------------------------------
(* Properties of the API route, checked under RouteSpec *)

\* C17: in either route variant, a failed read of the ranking CSV is answered
\* with status 500 and a body that has an error field and no footballers
\* list; status 200 is answered only when the CSV was read.
C17_CsvFailureIs500 ==
    route.pc = "done" =>
        /\ route.csvRead = "failed" =>
              /\ route.response.status = 500
              /\ "error" \in DOMAIN route.response.body
              /\ "footballers" \notin DOMAIN route.response.body
        /\ route.response.status = 200 => route.csvRead = "ok"

C17_Witness ==
    /\ route.pc = "done"
    /\ route.csvRead = "failed"
    /\ route.response.status = 500
    /\ DOMAIN route.response.body = {"error"}

\* the lines of a text: the stretches between consecutive line feeds
FileLines(text) ==
    LET feeds == {k \in 1..Len(text) : text[k] = Newline}
        cuts  == Ascending({0} \cup feeds \cup {Len(text) + 1})
    IN  [k \in 1..(Len(cuts) - 1) |->
            SubSeq(text, cuts[k] + 1, cuts[k + 1] - 1)]

IsBlank(line) == \A k \in 1..Len(line) : line[k] \in Whitespace

\* the non-blank lines after the first line, in file order
DataLines(text) ==
    LET all == FileLines(text)
    IN  SelectSeq(SubSeq(all, 2, Len(all)), LAMBDA line : ~IsBlank(line))

\* the n-th comma-separated field of a line without its double quotes: the
\* characters, other than commas and quotes, that have n - 1 commas before
\* them
CommasBefore(line, p) == Cardinality({j \in 1..(p - 1) : line[j] = Comma})
HasField(line, n) == CommasBefore(line, Len(line) + 1) >= n - 1
FieldOf(line, n) ==
    LET at == Ascending({p \in 1..Len(line) :
                            /\ line[p] \notin {Comma, Quote}
                            /\ CommasBefore(line, p) = n - 1})
    IN  [k \in 1..Len(at) |-> line[at[k]]]

\* C20: route.ts answers with exactly one entry per non-blank line after the
\* header line, in file order; an entry's name is the line's first field and
\* its score the number read from the line's second field, double quotes
\* removed.
C20_OneEntryPerDataLine ==
    (route.pc = "done" /\ route.variant = "route.ts"
        /\ route.response.status = 200) =>
        LET rows == DataLines(route.csvContent.text)
            out  == route.response.body.footballers
        IN  /\ Len(out) = Len(rows)
            /\ \A k \in 1..Len(rows) :
                  /\ out[k].name = Text(FieldOf(rows[k], 1))
                  /\ out[k].searchInterest =
                        IF HasField(rows[k], 2)
                        THEN JsonValue(ParseFloat(Text(FieldOf(rows[k], 2))))
                        ELSE Null

C20_Witness ==
    /\ route.pc = "done"
    /\ route.variant = "route.ts"
    /\ route.response.status = 200
    /\ ~IsBlank(FileLines(route.csvContent.text)[1])
    /\ Quote \in {route.csvContent.text[k] :
                     k \in 1..Len(route.csvContent.text)}
    /\ Len(route.response.body.footballers) = 1
    /\ route.response.body.footballers[1].searchInterest = Num(7)

-----------------------------------------------------------------------------
(* Properties of getCountryCode, checked under CountrySpec *)

\* C18: for every nationality whose lower-cased form is a key of the
\* special-case map, getCountryCode returns that map's code, whatever the
\* country-code table holds for that name (england -> gb-eng, usa -> us,
\* dr congo -> cd, ...).
C18_SpecialCasesFirst ==
    flag.pc = "returned" =>
        /\ \A key \in DOMAIN specialCases :
              flag.nationality.base = key =>
                  flag.result = Cased(specialCases[key], "lower")
        /\ flag.nationality.base = "england" => flag.result.base = "gb-eng"
        /\ flag.nationality.base = "usa" => flag.result.base = "us"
        /\ flag.nationality.base = "dr congo" => flag.result.base = "cd"

C18_Witness ==
    /\ flag.pc = "returned"
    /\ flag.nationality = Cased("england", "UPPER")
    /\ \E i \in 1..Len(flag.countryCodes) :
          /\ flag.countryCodes[i].name = Cased("england", "Title")
          /\ flag.countryCodes[i].code = "gb"
    /\ flag.result = Cased("gb-eng", "lower")

-----------------------------------------------------------------------------
(* Properties of the detail view, checked under Spec *)

\* the entries of a player_news list that carry the selected player's id
MatchesOf(list) ==
    {k \in 1..Len(list) : list[k].player_id = selectedPlayer.player.id}

\* what every settling of the news fetch brings about, whichever way it goes
SettledWithoutSpinner ==
    /\ ~dLoading'
    /\ DetailView' \in {"summary", "no-summary"}

\* C19 as stated: once the news fetch settles the loading indicator is gone;
\* the summary shown is that of the entry whose player_id is the selected
\* player's id; when no entry has that id, or the fetch or the parsing
\* fails, the view shows "No summary available" with news left null.
C19_NewsLeftNullAsStated ==
    [][/\ \A list \in NewsBodies : NewsResolves(list) =>
              /\ SettledWithoutSpinner
              /\ MatchesOf(list) # {} =>
                    /\ DetailView' = "summary"
                    /\ \E k \in MatchesOf(list) : news' = list[k]
              /\ MatchesOf(list) = {} =>
                    /\ DetailView' = "no-summary"
                    /\ news' = Null
       /\ NewsFails =>
              /\ SettledWithoutSpinner
              /\ DetailView' = "no-summary"
              /\ news' = Null]_vars

\* C19 amended: as above, except that news is null only after a failed fetch
\* or parse; when the list has no entry for the selected player, news is
\* undefined (the result of find), and the view is "No summary available"
\* all the same.
C19_NewsSettles ==
    [][/\ \A list \in NewsBodies : NewsResolves(list) =>
              /\ SettledWithoutSpinner
              /\ MatchesOf(list) # {} =>
                    /\ DetailView' = "summary"
                    /\ \E k \in MatchesOf(list) : news' = list[k]
              /\ MatchesOf(list) = {} =>
                    /\ DetailView' = "no-summary"
                    /\ news' = Undefined
       /\ NewsFails =>
              /\ SettledWithoutSpinner
              /\ DetailView' = "no-summary"
              /\ news' = Null]_vars

C19_Witness ==
    /\ lastEvent = "news"
    /\ detailKey # NoKey
    /\ ~dLoading
    /\ news = Undefined
    /\ DetailView = "no-summary"

-----------------------------------------------------------------------------
(* Properties of the navigation bar, checked under NavSpec *)

\* the sections that exist and lie at or above the middle of the viewport
Qualifying ==
    {k \in 1..Len(sections) :
        /\ sections[k] \in SectionsInDocument
        /\ 2 * (nav.layout[sections[k]] - nav.scrollY) <= nav.innerHeight}

\* C21: activeSection starts as rankings and is always one of the four
\* section ids; after handleScroll has run for a scroll event it is the last
\* section, in the order rankings, search, features, about, that exists in
\* the document with offsetTop <= scrollY + innerHeight / 2, and it is what
\* it was before when no section qualifies.
C21_ActiveSection ==
    /\ nav.activeSection \in {"rankings", "search", "features", "about"}
    /\ nav.last = "none" => nav.activeSection = "rankings"
    /\ nav.last = "handled" =>
          IF Qualifying = {} THEN nav.activeSection = nav.before
          ELSE \E k \in Qualifying :
                  /\ \A j \in Qualifying : j <= k
                  /\ nav.activeSection = sections[k]

C21_Witness ==
    /\ nav.last = "handled"
    /\ View = "list"
    /\ nav.activeSection = "features"
    /\ nav.before = "rankings"
    /\ Qualifying = {1, 2, 3}

\* C29: after handleScroll has run for a scroll event, isScrolled holds
\* exactly when scrollY > 50; while isScrolled is false every nav item is
\* expanded, and while it is true exactly one is, the one whose link names
\* the active section.
C29_ScrolledAndExpanded ==
    /\ nav.last = "handled" => (nav.isScrolled <=> nav.scrollY > 50)
    /\ ~nav.isScrolled => Expanded = 1..Len(navItems)
    /\ nav.isScrolled =>
          \E k \in 1..Len(navItems) :
              /\ Expanded = {k}
              /\ navItems[k].link = <<"#", nav.activeSection>>

C29_Witness ==
    /\ nav.last = "handled"
    /\ nav.scrollY = 51
    /\ nav.isScrolled
    /\ nav.activeSection = "search"
    /\ Expanded = {2}

-----------------------------------------------------------------------------
(* Properties of the detail chart, checked under ChartSpec *)

\* the (value, date) pairs of a raw series, none of them smoothed
RawPairs(iot) ==
    IF iot = Undefined THEN {}
    ELSE {[value |-> iot.values[k], date |-> iot.dates[k]] :
             k \in 1..Len(iot.values)}

\* series is in ascending date order, has max(0, n - 12) points, all of
\* them raw pairs, and no pair left out is dated after a pair kept
IsLatestRawPairs(series, iot) ==
    LET raw  == RawPairs(iot)
        kept == {series[k] : k \in 1..Len(series)}
    IN  /\ Len(series) = (IF Cardinality(raw) > 12
                          THEN Cardinality(raw) - 12 ELSE 0)
        /\ \A i, j \in 1..Len(series) : i < j => series[i].date <= series[j].date
        /\ Cardinality(kept) = Len(series)
        /\ kept \subseteq raw
        /\ \A p \in raw \ kept, q \in kept : p.date <= q.date

\* C22: the detail chart's series is built from the raw samples: the
\* (value, date) pairs sorted ascending by timestamp with the 12 earliest
\* dropped, max(0, n - 12) points for n samples; rendering it leaves the
\* interest_over_time arrays of the selected entry as they were.
C22_ChartFromRawSamples ==
    [][chart'.pc # chart.pc =>
          /\ IsLatestRawPairs(chart'.series, selectedPlayer.interest_over_time)
          /\ selectedPlayer' = selectedPlayer]_vars

C22_Witness ==
    /\ chart.pc = "rendered"
    /\ selectedPlayer.interest_over_time # Undefined
    /\ Len(selectedPlayer.interest_over_time.dates) = 14
    /\ selectedPlayer.interest_over_time.dates[1] > selectedPlayer.interest_over_time.dates[2]
    /\ Len(chart.series) = 2
    /\ chart.series[1].value # 13

-----------------------------------------------------------------------------
(* Further properties of the dashboard, checked under Spec *)

\* the step is window.location.reload(): a new page, not an event of the
\* component
IsReload == lastEvent' = "init"

\* C23: once a ranking fetch has failed and set error to a message, no later
\* event of the component sets error back to null: error stays a message
\* through successful and failed polls, clicks and closes, and while the
\* component is mounted with loading false the error panel is what is
\* shown, whatever list is held; only a page reload leaves this state.
C23_ErrorIsAbsorbing ==
    /\ [][(Truthy(error) /\ ~IsReload) => Truthy(error')]_vars
    /\ []((Truthy(error) /\ phase = "mounted" /\ ~loading) => View = "error")

C23_Witness ==
    /\ Truthy(error)
    /\ lastEvent = "ok"
    /\ footballers = Artifact2.players
    /\ ~loading
    /\ View = "error"

\* the step starts, advances or settles a ranking fetch
IsFetchStep == started' # started \/ inflight' # inflight
\* the step is the successful end of a ranking fetch
IsSuccess == inflight' # inflight /\ lastEvent' = "ok"

\* C24: a ranking fetch that fails changes only error and loading: none of
\* its steps changes the held list, the lastUpdate text or selectedPlayer;
\* footballers and lastUpdate change only when a fetch succeeds.
C24_FailureKeepsTheRest ==
    [][~IsReload =>
          /\ (IsFetchStep /\ ~IsSuccess) =>
                /\ footballers' = footballers
                /\ lastUpdate' = lastUpdate
                /\ selectedPlayer' = selectedPlayer
          /\ (footballers' # footballers \/ lastUpdate' # lastUpdate) =>
                IsSuccess]_vars

C24_Witness ==
    /\ lastEvent = "fail"
    /\ Truthy(error)
    /\ footballers = Artifact1.players
    /\ Truthy(selectedPlayer)

\* C26: whenever no ranking fetch is in flight after the first fetch has
\* started, loading is false.
C26_SettledMeansNotLoading ==
    (started >= 1 /\ inflight = {}) => ~loading

C26_Witness ==
    /\ started = 2
    /\ inflight = {}
    /\ ~loading
    /\ Truthy(error)
    /\ lastEvent = "fail"

\* C25: ranking responses are applied in order of arrival, with no request
\* sequencing: a response that arrives is applied (list and lastUpdate are
\* its own) also when a fetch started later has already settled, and
\* loading becomes false as soon as either of two overlapping fetches
\* settles, also while the other is still in flight.
C25_AppliedInArrivalOrder ==
    [][/\ \A f \in inflight, body \in Bodies \ {Null} :
              JsonResolves(f, body) =>
                  /\ footballers' = body.players
                  /\ lastUpdate' = FormatDate(body.updated_at)
       /\ (inflight' # inflight /\ started' = started /\ ~IsReload
              /\ \A g \in inflight' : g \in inflight) => ~loading']_vars

\* the older of two overlapping fetches has settled well while the newer is
\* still in flight: its list is held and loading is false
C25_Witness ==
    /\ started = 2
    /\ inflight = {[id |-> 2, pc |-> "fetch"]}
    /\ lastEvent = "ok"
    /\ ~loading
    /\ footballers = Artifact2.players

\* C27: a ranking poll never changes the selection: selectedPlayer changes
\* only through a click, a click's timer or the close action (and with the
\* page itself, on reload), so it keeps the entry captured at the click and
\* need not be a member of the list held now.
C27_PollKeepsSelection ==
    [][selectedPlayer' # selectedPlayer =>
          lastEvent' \in {"click", "timer", "close", "init"}]_vars

C27_Witness ==
    /\ lastEvent = "ok"
    /\ View = "list"
    /\ selectedPlayer = Entry(2, 2, SeriesA)
    /\ footballers = Artifact2.players
    /\ \A k \in 1..Len(footballers.items) : footballers.items[k] # selectedPlayer
    /\ detailKey = 2

-----------------------------------------------------------------------------
(* Further properties of the API route, checked under RouteSpec *)

\* toLocaleString of the time of the call
NowText == ToLocaleString(ValidDate(NowStamp))

\* C30: with the CSV read, a failed read of last_update.txt makes route.ts
\* answer 500 with an error body, while the older route tolerates a failed
\* read and an empty (or blank) text: it substitutes the current time and
\* answers 200 with the footballers list.
C30_TimestampFailure ==
    (route.pc = "done" /\ route.csvRead = "ok") =>
        /\ (route.variant = "route.ts" /\ route.stampRead = "failed") =>
              /\ route.response.status = 500
              /\ DOMAIN route.response.body = {"error"}
        /\ (route.variant = "older" /\
               (\/ route.stampRead = "failed"
                \/ \A k \in 1..Len(route.lastUpdate.text) :
                       route.lastUpdate.text[k] \in Whitespace)) =>
              /\ route.response.status = 200
              /\ "footballers" \in DOMAIN route.response.body
              /\ route.response.body.lastUpdate = NowText

C30_Witness ==
    /\ route.pc = "done"
    /\ route.variant = "older"
    /\ route.csvRead = "ok"
    /\ route.stampRead = "failed"
    /\ route.response.status = 200
    /\ Len(route.response.body.footballers) = 2

=============================================================================
